---- MODULE Spec2Model ----
(***************************************************************************)
(* Model of core/src/calls.rs: the method / notification contracts, the    *)
(* RemoteProcedure entry (Method | Notification | Alias), its Debug        *)
(* rendering and derived Clone, and the four blanket adapters that let a   *)
(* closure satisfy RpcMethodSimple, RpcNotificationSimple, RpcMethod<T>    *)
(* and RpcNotification<T>.                                                 *)
(***************************************************************************)
EXTENDS Integers, Sequences, FiniteSets, TLC

VARIABLES
    heap,      \* closure instances: signature, body, interior counter, Arc strong count
    tasks,     \* work a notification closure detached: "pending" | "done" | "failed"
    calls,     \* one record per call / execute made so far
    entries,   \* RemoteProcedure values that exist
    origin,    \* for a cloned entry, the entry it was cloned from (itself otherwise)
    rendered,  \* the last Debug rendering: [entry, out]
    registry   \* the external registry: name -> the entry stored and the one asked for

vars == <<heap, tasks, calls, entries, origin, rendered, registry>>

----------------------------------------------------------------------------
(* Bounds *)

MaxCalls == 2      \* calls / executes per behaviour
MaxDispatch == 1   \* invocations through the registry per behaviour
MaxEntries == 3    \* RemoteProcedure values per behaviour

----------------------------------------------------------------------------
(* Values *)

\* The unit metadata `()` of the handlers that take no metadata.
NoMeta == 0

\* Params: 0 stands for Params::None, the others for structured parameters.
Params == {0, 1}
Metas == {1, 2}

Ok(v) == [tag |-> "Ok", val |-> v]
Err(e) == [tag |-> "Err", val |-> e]
NoOutcome == [tag |-> "None", val |-> <<>>]

\* What a closure returns: a Result, a Future that is not ready yet, or ().
ResultOf(o) == [kind |-> "Result", outcome |-> o, delay |-> 0]
FutureOf(o, d) == [kind |-> "Future", outcome |-> o, delay |-> d]
UnitValue == [kind |-> "Unit", outcome |-> NoOutcome, delay |-> 0]

----------------------------------------------------------------------------
(* The closures F handed to the adapters.  "echo" answers at once, "later"  *)
(* answers with a computation that is NotReady on its first poll,          *)
(* "counter" keeps an interior counter (handler state) and answers with    *)
(* it, "spawn" is a notification that detaches work.                       *)

\* F(params[, meta]) for the bodies used here.
Body(f, p, m, count) ==
    CASE f = "echo"    -> ResultOf(IF p = 0 THEN Err(<<p, m>>) ELSE Ok(<<p, m>>))
      [] f = "later"   -> FutureOf(IF p = 0 THEN Err(<<p, m>>) ELSE Ok(<<p, m>>), 1)
      [] f = "counter" -> ResultOf(Ok(<<count, m>>))
      [] OTHER         -> UnitValue

Closure(sig, f) == [sig |-> sig, f |-> f, count |-> 0, strong |-> IF sig \in {"Method", "Notification"} THEN 1 ELSE 0]

Pool ==
    << Closure("MethodSimple", "echo"),
       Closure("MethodSimple", "later"),
       Closure("NotificationSimple", "spawn"),
       Closure("Method", "echo"),
       Closure("Method", "later"),
       Closure("Method", "counter"),
       Closure("Notification", "spawn") >>

WithSig(hp, sig) == {h \in DOMAIN hp : hp[h].sig = sig}

\* self(params) / self(params, meta): runs the closure body once in world w.
Invoke(w, h, p, m) ==
    LET cl == w.heap[h] IN
    [ w |-> [ heap |-> IF cl.f = "counter"
                         THEN [w.heap EXCEPT ![h].count = @ + 1] ELSE w.heap,
              tasks |-> IF cl.f = "spawn" /\ p # 0
                          THEN Append(w.tasks, "pending") ELSE w.tasks,
              trace |-> Append(w.trace, [h |-> h, p |-> p, m |-> m, count |-> cl.count]) ],
      ret |-> Body(cl.f, p, m, cl.count) ]

----------------------------------------------------------------------------
(* futures 0.1: IntoFuture, Box<Future>, poll *)

NoFuture == [kind |-> "None", outcome |-> NoOutcome, delay |-> 0, done |-> TRUE, boxed |-> FALSE]

\* Variant: the conversion recovers from an error with a default value.
IntoFuture_OrElse(i) ==
    [ kind |-> IF i.kind = "Result" THEN "FutureResult" ELSE "Deferred",
      outcome |-> IF i.outcome.tag = "Err" THEN Ok(<<0, 0>>) ELSE i.outcome,
      delay |-> i.delay, done |-> FALSE, boxed |-> FALSE ]

\* Result<T, E>::into_future() is a FutureResult; Future::into_future() is itself.
IntoFuture(i) ==
    [ kind |-> IF i.kind = "Result" THEN "FutureResult" ELSE "Deferred",
      outcome |-> i.outcome, delay |-> i.delay, done |-> FALSE, boxed |-> FALSE ]

\* Box::new(future): the BoxFuture polls the future it holds.
BoxNew(fut) == [fut EXCEPT !.boxed = TRUE]

\* Future::poll: NotReady while work remains, then Ready(outcome) once.
FuturePoll(fut) ==
    IF fut.delay > 0
      THEN [fut |-> [fut EXCEPT !.delay = @ - 1], ready |-> FALSE, outcome |-> NoOutcome]
      ELSE [fut |-> [fut EXCEPT !.done = TRUE], ready |-> TRUE, outcome |-> fut.outcome]

----------------------------------------------------------------------------
(* The four blanket adapters *)

\* Variant: the closure is handed Params::None instead of the caller's params.
RpcMethodSimple_call_DefaultParams(w, self, params) ==
    LET r == Invoke(w, self, 0, NoMeta) IN
    [w |-> r.w, ret |-> "future", fut |-> IntoFuture(r.ret), awaits |-> {}]

\* Variant: a closure that answers with an error is invoked a second time.
RpcMethodSimple_call_Retry(w, self, params) ==
    LET r1 == Invoke(w, self, params, NoMeta)
        r == IF r1.ret.outcome.tag = "Err" THEN Invoke(r1.w, self, params, NoMeta) ELSE r1
    IN [w |-> r.w, ret |-> "future", fut |-> IntoFuture(r.ret), awaits |-> {}]

\* impl RpcMethodSimple for F: self(params).into_future()
RpcMethodSimple_call(w, self, params) ==
    LET r == Invoke(w, self, params, NoMeta) IN
    [w |-> r.w, ret |-> "future", fut |-> IntoFuture(r.ret), awaits |-> {}]

\* Variant: execute waits for the work the closure detached.
RpcNotificationSimple_execute_Wait(w, self, params) ==
    LET r == Invoke(w, self, params, NoMeta) IN
    [w |-> r.w, ret |-> "unit", fut |-> NoFuture,
     awaits |-> (Len(w.tasks) + 1) .. Len(r.w.tasks)]

\* impl RpcNotificationSimple for F: self(params)
RpcNotificationSimple_execute(w, self, params) ==
    LET r == Invoke(w, self, params, NoMeta) IN
    [w |-> r.w, ret |-> "unit", fut |-> NoFuture, awaits |-> {}]

\* impl RpcMethod<T> for F: Box::new(self(params, meta).into_future())
RpcMethod_call(w, self, params, meta) ==
    LET r == Invoke(w, self, params, meta) IN
    [w |-> r.w, ret |-> "future", fut |-> BoxNew(IntoFuture(r.ret)), awaits |-> {}]

\* Variant: a notification without params is dropped instead of delivered.
RpcNotification_execute_Skip(w, self, params, meta) ==
    LET r == Invoke(w, self, params, meta) IN
    [w |-> IF params = 0 THEN w ELSE r.w, ret |-> "unit", fut |-> NoFuture, awaits |-> {}]

\* impl RpcNotification<T> for F: self(params, meta)
RpcNotification_execute(w, self, params, meta) ==
    LET r == Invoke(w, self, params, meta) IN
    [w |-> r.w, ret |-> "unit", fut |-> NoFuture, awaits |-> {}]

----------------------------------------------------------------------------
(* Strings are sequences of characters *)

Echo == <<"e", "c", "h", "o">>
Ping == <<"p", "i", "n", "g">>
Odd == <<"a", "\"", "\\">>

\* The names the registry is keyed by, and the names an Alias may point to.
Names == {Echo, Ping}
Targets == {Echo, Ping, Odd}

\* char::escape_debug for the characters used here.
EscapeDebug(c) == IF c \in {"\"", "\\"} THEN <<"\\", c>> ELSE <<c>>

RECURSIVE Escaped(_)
Escaped(s) == IF s = <<>> THEN <<>> ELSE EscapeDebug(Head(s)) \o Escaped(Tail(s))

\* <str as fmt::Debug>::fmt, what {:?} writes for a String.
StrDebug(s) == <<"\"">> \o Escaped(s) \o <<"\"">>

----------------------------------------------------------------------------
(* RemoteProcedure<T> *)

Method(h) == [variant |-> "Method", handler |-> h, target |-> <<>>]
Notification(h) == [variant |-> "Notification", handler |-> h, target |-> <<>>]
\* Variants of Alias: one loses the target name, one refuses a target that is
\* not an identifier.
Alias_Empty(s) == [variant |-> "Alias", handler |-> 0, target |-> <<>>]
Alias_Validated(s) ==
    IF \E i \in DOMAIN s : s[i] \in {"\"", "\\"}
      THEN [variant |-> "Absent", handler |-> 0, target |-> <<>>]
      ELSE [variant |-> "Alias", handler |-> 0, target |-> s]
Alias(s) == [variant |-> "Alias", handler |-> 0, target |-> s]
Absent == [variant |-> "Absent", handler |-> 0, target |-> <<>>]

Constructible ==
    {Method(h) : h \in WithSig(Pool, "Method")}
      \cup {Notification(h) : h \in WithSig(Pool, "Notification")}
      \cup {Alias(t) : t \in Targets}

\* Variant: the Notification arm writes the Method marker.
fmt_SameMarker(self) ==
    [ self |-> self,
      out |-> IF self.variant \in {"Method", "Notification"}
                THEN <<"<", "m", "e", "t", "h", "o", "d", ">">>
                ELSE <<"a", "l", "i", "a", "s", " ", "=", ">", " ">> \o StrDebug(self.target) ]

\* Variant: rendering an Alias moves the target name out of the entry.
fmt_Take(self) ==
    [ self |-> IF self.variant = "Alias" THEN [self EXCEPT !.target = <<>>] ELSE self,
      out |-> CASE self.variant = "Method" -> <<"<", "m", "e", "t", "h", "o", "d", ">">>
                [] self.variant = "Notification" ->
                     <<"<", "n", "o", "t", "i", "f", "i", "c", "a", "t", "i", "o", "n", ">">>
                [] OTHER ->
                     <<"a", "l", "i", "a", "s", " ", "=", ">", " ">> \o StrDebug(self.target) ]

\* impl fmt::Debug for RemoteProcedure<T>: takes &self, writes to the formatter.
fmt(self) ==
    [ self |-> self,
      out |-> CASE self.variant = "Method" -> <<"<", "m", "e", "t", "h", "o", "d", ">">>
                [] self.variant = "Notification" ->
                     <<"<", "n", "o", "t", "i", "f", "i", "c", "a", "t", "i", "o", "n", ">">>
                [] OTHER ->
                     <<"a", "l", "i", "a", "s", " ", "=", ">", " ">> \o StrDebug(self.target) ]

\* Arc::clone / drop of an Arc: the strong count of the one allocation.
ArcClone(hp, x) ==
    IF x.handler = 0 THEN hp ELSE [hp EXCEPT ![x.handler].strong = @ + 1]
ArcDrop(hp, x) ==
    IF x.handler = 0 THEN hp ELSE [hp EXCEPT ![x.handler].strong = @ - 1]

\* Variant: cloning an entry copies the handler it holds into a new allocation.
clone_Deep(hp, self) ==
    IF self.handler = 0
      THEN [heap |-> hp, self |-> self, new |-> self]
      ELSE [ heap |-> Append(hp, [hp[self.handler] EXCEPT !.strong = 1]),
             self |-> self, new |-> [self EXCEPT !.handler = Len(hp) + 1] ]

\* #[derive(Clone)]: takes &self; Method / Notification clone the Arc, Alias
\* clones the String.
clone(hp, self) == [heap |-> ArcClone(hp, self), self |-> self, new |-> self]

----------------------------------------------------------------------------
(* State machine *)

World == [heap |-> heap, tasks |-> tasks, trace |-> <<>>]

\* The record kept of one operation: what was asked, what the adapter did.
CallRecord(op, h, e, via, p, m, r) ==
    [ op |-> op, h |-> h, e |-> e, via |-> via, p |-> p, m |-> m,
      invoked |-> r.w.trace, ret |-> r.ret, fut |-> r.fut, awaits |-> r.awaits,
      spawned |-> (Len(tasks) + 1) .. Len(r.w.tasks),
      resolved |-> <<>> ]

Commit(rec, r) ==
    /\ calls' = Append(calls, rec)
    /\ heap' = r.w.heap
    /\ tasks' = r.w.tasks

Init ==
    /\ heap = Pool
    /\ tasks = <<>>
    /\ calls = <<>>
    /\ entries = <<>>
    /\ origin = <<>>
    /\ rendered = [entry |-> 0, out |-> <<>>]
    /\ registry = [n \in Names |-> [entry |-> Absent, asked |-> Absent]]

CanCall == Len(calls) < MaxCalls

Call(h, p) ==
    /\ CanCall
    /\ LET r == RpcMethodSimple_call(World, h, p) IN
       Commit(CallRecord("call", h, 0, <<>>, p, NoMeta, r), r)
    /\ UNCHANGED <<entries, origin, rendered, registry>>

CallMeta(h, p, m) ==
    /\ CanCall
    /\ LET r == RpcMethod_call(World, h, p, m) IN
       Commit(CallRecord("call", h, 0, <<>>, p, m, r), r)
    /\ UNCHANGED <<entries, origin, rendered, registry>>

Execute(h, p) ==
    /\ CanCall
    /\ LET r == RpcNotificationSimple_execute(World, h, p) IN
       Commit(CallRecord("execute", h, 0, <<>>, p, NoMeta, r), r)
    /\ UNCHANGED <<entries, origin, rendered, registry>>

ExecuteMeta(h, p, m) ==
    /\ CanCall
    /\ LET r == RpcNotification_execute(World, h, p, m) IN
       Commit(CallRecord("execute", h, 0, <<>>, p, m, r), r)
    /\ UNCHANGED <<entries, origin, rendered, registry>>

\* The executor polls a computation that has not completed.
Poll(c) ==
    /\ ~calls[c].fut.done
    /\ LET r == FuturePoll(calls[c].fut) IN
       calls' = [calls EXCEPT ![c].fut = r.fut,
                              ![c].resolved = IF r.ready THEN Append(@, r.outcome) ELSE @]
    /\ UNCHANGED <<heap, tasks, entries, origin, rendered, registry>>

\* Detached work finishes, successfully or not, on its own.
RunTask(t, how) ==
    /\ tasks[t] = "pending"
    /\ tasks' = [tasks EXCEPT ![t] = how]
    /\ UNCHANGED <<heap, calls, entries, origin, rendered, registry>>

Next ==
    \/ \E h \in WithSig(heap, "MethodSimple"), p \in Params : Call(h, p)
    \/ \E h \in WithSig(heap, "Method"), p \in Params, m \in Metas : CallMeta(h, p, m)
    \/ \E h \in WithSig(heap, "NotificationSimple"), p \in Params : Execute(h, p)
    \/ \E h \in WithSig(heap, "Notification"), p \in Params, m \in Metas : ExecuteMeta(h, p, m)
    \/ \E c \in DOMAIN calls : Poll(c)
    \/ \E t \in DOMAIN tasks, how \in {"done", "failed"} : RunTask(t, how)

Spec == Init /\ [][Next]_vars

----------------------------------------------------------------------------
(* Entries: construction, Clone and Debug *)

CanConstruct == Len(entries) < MaxEntries

New(x) ==
    /\ CanConstruct
    /\ entries' = Append(entries, x)
    /\ origin' = Append(origin, Len(entries) + 1)
    /\ heap' = ArcClone(heap, x)
    /\ UNCHANGED <<tasks, calls, rendered, registry>>

NewMethod(h) == New(Method(h))
NewNotification(h) == New(Notification(h))
NewAlias(t) == New(Alias(t))

CloneEntry(e) ==
    /\ CanConstruct
    /\ LET r == clone(heap, entries[e]) IN
       /\ entries' = Append([entries EXCEPT ![e] = r.self], r.new)
       /\ heap' = r.heap
    /\ origin' = Append(origin, e)
    /\ UNCHANGED <<tasks, calls, rendered, registry>>

DebugEntry(e) ==
    /\ LET r == fmt(entries[e]) IN
       /\ entries' = [entries EXCEPT ![e] = r.self]
       /\ rendered' = [entry |-> e, out |-> r.out]
    /\ UNCHANGED <<heap, tasks, calls, origin, registry>>

NextEntries ==
    \/ \E h \in WithSig(heap, "Method") : NewMethod(h)
    \/ \E h \in WithSig(heap, "Notification") : NewNotification(h)
    \/ \E t \in Targets : NewAlias(t)
    \/ \E e \in DOMAIN entries : CloneEntry(e)
    \/ \E e \in DOMAIN entries : DebugEntry(e)

SpecEntries == Init /\ [][NextEntries]_vars

----------------------------------------------------------------------------
(* One entry, its clones, and the calls made through them *)

InitShared ==
    /\ \E x \in Constructible :
         /\ entries = <<x>>
         /\ heap = ArcClone(Pool, x)
    /\ origin = <<1>>
    /\ tasks = <<>>
    /\ calls = <<>>
    /\ rendered = [entry |-> 0, out |-> <<>>]
    /\ registry = [n \in Names |-> [entry |-> Absent, asked |-> Absent]]

\* (*arc).call(params, meta) on the handler a Method entry holds.
CallEntry(e, p, m) ==
    /\ CanCall
    /\ entries[e].variant = "Method"
    /\ LET r == RpcMethod_call(World, entries[e].handler, p, m) IN
       Commit(CallRecord("call", entries[e].handler, e, <<>>, p, m, r), r)
    /\ UNCHANGED <<entries, origin, rendered, registry>>

\* (*arc).execute(params, meta) on the handler a Notification entry holds.
ExecuteEntry(e, p, m) ==
    /\ CanCall
    /\ entries[e].variant = "Notification"
    /\ LET r == RpcNotification_execute(World, entries[e].handler, p, m) IN
       Commit(CallRecord("execute", entries[e].handler, e, <<>>, p, m, r), r)
    /\ UNCHANGED <<entries, origin, rendered, registry>>

\* Every call of one behaviour carries the same metadata value.
SharedMeta == CHOOSE m \in Metas : TRUE

NextShared ==
    \/ \E e \in DOMAIN entries : CloneEntry(e)
    \/ \E e \in DOMAIN entries : DebugEntry(e)
    \/ \E e \in DOMAIN entries, p \in Params : CallEntry(e, p, SharedMeta)
    \/ \E e \in DOMAIN entries, p \in Params : ExecuteEntry(e, p, SharedMeta)
    \/ \E c \in DOMAIN calls : Poll(c)
    \/ \E t \in DOMAIN tasks, how \in {"done", "failed"} : RunTask(t, how)

SpecShared == InitShared /\ [][NextShared]_vars

----------------------------------------------------------------------------
(* The external registry: register, resolve, invoke *)

\* register(name, entry): the new entry replaces the old one, which is dropped.
Register(name, variant, h, t) ==
    /\ LET x == CASE variant = "Method" -> Method(h)
                  [] variant = "Notification" -> Notification(h)
                  [] OTHER -> Alias(t)
           old == registry[name].entry
       IN /\ registry' = [registry EXCEPT ![name] =
                 [entry |-> x, asked |-> [variant |-> variant, handler |-> h, target |-> t]]]
          /\ heap' = ArcDrop(ArcClone(heap, x), old)
    /\ UNCHANGED <<tasks, calls, entries, origin, rendered>>

\* resolve(name), the caller following Alias hops; a chain that visits more
\* names than there are never ends.
RECURSIVE Follow(_, _, _)
Follow(reg, name, fuel) ==
    IF name \notin DOMAIN reg \/ reg[name].entry.variant = "Absent"
      THEN [found |-> "absent", name |-> name, entry |-> Absent]
    ELSE IF reg[name].entry.variant # "Alias"
      THEN [found |-> "entry", name |-> name, entry |-> reg[name].entry]
    ELSE IF fuel = 0
      THEN [found |-> "cycle", name |-> name, entry |-> Absent]
    ELSE Follow(reg, reg[name].entry.target, fuel - 1)

Resolve(reg, name) == Follow(reg, name, Cardinality(DOMAIN reg))

NoCall == [w |-> World, ret |-> "none", fut |-> NoFuture, awaits |-> {}]

\* invoke: resolve the name, then call / execute what it resolves to.
Invocation(name, p, m) ==
    LET to == Resolve(registry, name)
        h == to.entry.handler
    IN CASE to.entry.variant = "Method" ->
              [op |-> "call", h |-> h, r |-> RpcMethod_call(World, h, p, m)]
         [] to.entry.variant = "Notification" ->
              [op |-> "execute", h |-> h, r |-> RpcNotification_execute(World, h, p, m)]
         [] OTHER -> [op |-> to.found, h |-> 0, r |-> NoCall]

Dispatch(name, p, m) ==
    /\ Len(calls) < MaxDispatch
    /\ LET i == Invocation(name, p, m) IN
       Commit(CallRecord(i.op, i.h, 0, name, p, m, i.r), i.r)
    /\ UNCHANGED <<entries, origin, rendered, registry>>

NextRegistry ==
    \/ \E n \in Names, h \in WithSig(heap, "Method") : Register(n, "Method", h, <<>>)
    \/ \E n \in Names, h \in WithSig(heap, "Notification") : Register(n, "Notification", h, <<>>)
    \/ \E n \in Names, t \in Targets : Register(n, "Alias", 0, t)
    \/ \E n \in Names, p \in Params, m \in Metas : Dispatch(n, p, m)
    \/ \E c \in DOMAIN calls : Poll(c)
    \/ \E t \in DOMAIN tasks, how \in {"done", "failed"} : RunTask(t, how)

SpecRegistry == Init /\ [][NextRegistry]_vars

----------------------------------------------------------------------------
(* Properties of the adapters, over the calls made directly on closures *)

CallsOf(sigs) == {c \in DOMAIN calls : calls[c].h # 0 /\ heap[calls[c].h].sig \in sigs}

\* What f itself answers when invoked as the record says it was.
Answer(c, inv) == Body(heap[calls[c].h].f, inv.p, inv.m, inv.count)

\* f(P) invoked directly: P and no metadata, in the handler state the call found.
Direct(c) ==
    Body(heap[calls[c].h].f, calls[c].p, calls[c].m, calls[c].invoked[1].count)

\* C1: call(P) on a function wrapped by the simple-method adapter is
\* observationally equivalent to f(P): f is invoked with P, the computation
\* returned is ready when f's is, and it resolves to the outcome of f(P).
C1_SimpleCallIsDirectCall ==
    \A c \in CallsOf({"MethodSimple"}) :
        /\ calls[c].ret = "future"
        /\ calls[c].invoked = <<[h |-> calls[c].h, p |-> calls[c].p, m |-> NoMeta,
                                 count |-> heap[calls[c].h].count]>>
        /\ calls[c].fut.outcome = Direct(c).outcome
        /\ calls[c].fut.delay <= Direct(c).delay
        /\ calls[c].fut.done => calls[c].resolved = <<Direct(c).outcome>>
        /\ ~calls[c].fut.done => calls[c].resolved = <<>>

C1_Witness ==
    \E c1, c2 \in CallsOf({"MethodSimple"}) :
        /\ heap[calls[c1].h].f = "later" /\ calls[c1].p = 1
        /\ calls[c1].resolved = <<Ok(<<1, NoMeta>>)>>
        /\ heap[calls[c2].h].f = "echo" /\ calls[c2].p = 0
        /\ calls[c2].resolved = <<Err(<<0, NoMeta>>)>>

\* C2: when the handler's computation resolves to an Error E, the computation
\* obtained from call resolves to exactly E, through the simple adapter and
\* through the boxed, context-aware one.
C2_ErrorsPropagateUnchanged ==
    \A c \in CallsOf({"MethodSimple", "Method"}) :
        \A i \in DOMAIN calls[c].invoked :
            LET a == Answer(c, calls[c].invoked[i]) IN
            (i = Len(calls[c].invoked) /\ a.outcome.tag = "Err") =>
                /\ calls[c].fut.outcome = a.outcome
                /\ calls[c].fut.done => calls[c].resolved = <<a.outcome>>

C2_Witness ==
    \E c1 \in CallsOf({"MethodSimple"}), c2 \in CallsOf({"Method"}) :
        /\ calls[c1].resolved # <<>> /\ calls[c1].resolved[1].tag = "Err"
        /\ calls[c2].resolved # <<>> /\ calls[c2].resolved[1].tag = "Err"
        /\ heap[calls[c2].h].f = "later"

\* C3: one call(P) on a simple method yields one computation that resolves at
\* most once, to a Result or an Error and to nothing else, and the handler is
\* invoked once for it: there is no retry.
C3_ExactlyOneResolution ==
    \A c \in CallsOf({"MethodSimple"}) :
        /\ Len(calls[c].invoked) = 1
        /\ Len(calls[c].resolved) <= 1
        /\ calls[c].fut.done <=> Len(calls[c].resolved) = 1
        /\ \A i \in DOMAIN calls[c].resolved : calls[c].resolved[i].tag \in {"Ok", "Err"}

C3_Witness ==
    \E c1, c2 \in CallsOf({"MethodSimple"}) :
        /\ c1 < c2
        /\ calls[c1].h = calls[c2].h /\ calls[c1].p = calls[c2].p
        /\ Len(calls[c1].resolved) = 1 /\ calls[c1].resolved[1].tag = "Err"
        /\ Len(calls[c2].resolved) = 1

\* C7: execute on a notification returns no value and never waits: it hands
\* back unit, no computation to poll and nothing resolved, whatever becomes of
\* the work the handler detached (pending, done or failed).
C7_ExecuteReturnsUnitWithoutWaiting ==
    \A c \in CallsOf({"NotificationSimple", "Notification"}) :
        /\ calls[c].op = "execute"
        /\ calls[c].ret = "unit"
        /\ calls[c].awaits = {}
        /\ calls[c].fut = NoFuture
        /\ calls[c].resolved = <<>>

C7_Witness ==
    \E c1 \in CallsOf({"NotificationSimple"}), c2 \in CallsOf({"Notification"}) :
        /\ \E t \in calls[c1].spawned : tasks[t] = "pending"
        /\ \E t \in calls[c2].spawned : tasks[t] = "failed"

\* C10: each of the four adapters invokes f exactly once, before it returns,
\* with the Parameters and the Metadata it was given; the boxed computation of
\* the context-aware method resolves to what the computation f(P, M) resolves to.
C10_AdaptersPassThrough ==
    \A c \in DOMAIN calls :
        /\ Len(calls[c].invoked) = 1
        /\ calls[c].invoked[1].h = calls[c].h
        /\ calls[c].invoked[1].p = calls[c].p
        /\ calls[c].invoked[1].m = calls[c].m
        /\ heap[calls[c].h].f = "spawn" =>
              Cardinality(calls[c].spawned) = (IF calls[c].p = 0 THEN 0 ELSE 1)
        /\ heap[calls[c].h].sig = "Method" =>
              /\ calls[c].fut.boxed
              /\ calls[c].fut.outcome = Direct(c).outcome
              /\ calls[c].fut.done => calls[c].resolved = <<Direct(c).outcome>>

C10_Witness ==
    \E c1, c2 \in DOMAIN calls :
        /\ heap[calls[c1].h].sig = "Method" /\ heap[calls[c1].h].f = "later"
        /\ calls[c1].resolved = <<Ok(<<1, 2>>)>>
        /\ heap[calls[c2].h].sig = "Notification"
        /\ calls[c2].p = 0 /\ calls[c2].m = 2

----------------------------------------------------------------------------
(* Properties of the RemoteProcedure entry *)

Render(x) == fmt(x).out

\* The string a Debug-quoted literal stands for ("?" marks a malformed one).
RECURSIVE Unescaped(_)
Unescaped(s) ==
    IF s = <<>> THEN <<>>
    ELSE IF Head(s) = "\\"
      THEN IF Len(s) >= 2 THEN <<s[2]>> \o Unescaped(Tail(Tail(s))) ELSE <<"?">>
    ELSE IF Head(s) = "\"" THEN <<"?">> \o Unescaped(Tail(s))
    ELSE <<Head(s)>> \o Unescaped(Tail(s))

\* out ends with the literal of name n.
Shows(out, n) ==
    \E i \in DOMAIN out :
        /\ i < Len(out)
        /\ out[i] = "\"" /\ out[Len(out)] = "\""
        /\ Unescaped(SubSeq(out, i + 1, Len(out) - 1)) = n

\* C4: the Debug rendering of an entry depends on its variant and, for an
\* Alias, its target only: all Methods render alike, all Notifications render
\* alike, an Alias shows its target name, and entries of different variants
\* (or Aliases of different targets) never render alike.
C4_DebugDistinguishesVariants ==
    /\ rendered.entry # 0 =>
         /\ rendered.out = Render(entries[rendered.entry])
         /\ entries[rendered.entry].variant = "Alias" =>
              Shows(rendered.out, entries[rendered.entry].target)
    /\ \A e1, e2 \in DOMAIN entries :
         LET x == entries[e1]
             y == entries[e2]
         IN /\ (x.variant = y.variant /\ x.variant # "Alias") => Render(x) = Render(y)
            /\ x.variant # y.variant => Render(x) # Render(y)
            /\ (x.variant = "Alias" /\ y.variant = "Alias" /\ x.target # y.target)
                  => Render(x) # Render(y)
            /\ x.variant = "Alias" => Shows(Render(x), x.target)

C4_Witness ==
    /\ rendered.entry # 0
    /\ entries[rendered.entry] = Alias(Odd)
    /\ rendered.out = <<"a", "l", "i", "a", "s", " ", "=", ">", " ",
                        "\"", "a", "\\", "\"", "\\", "\\", "\"">>
    /\ \E e1, e2 \in DOMAIN entries :
         /\ entries[e1].variant = "Method" /\ entries[e2].variant = "Notification"
         /\ entries[e1].handler # entries[e2].handler

\* The entry a clone descends from.
RECURSIVE Root(_)
Root(e) == IF origin[e] = e THEN e ELSE Root(origin[e])

EarlierInFamily(c) ==
    {d \in 1 .. (c - 1) : calls[d].e # 0 /\ Root(calls[d].e) = Root(calls[c].e)}

\* C5: cloning an entry duplicates the reference only. Every clone holds the
\* handler instance its origin holds, no handler instance comes into being by
\* cloning, and the calls made through an entry and its clones see and change
\* one handler state: the k-th call of the family finds the counter at k - 1.
C5_ClonesShareOneHandler ==
    /\ Len(heap) = Len(Pool)
    /\ \A e \in DOMAIN entries : entries[e] = entries[origin[e]]
    /\ \A h \in DOMAIN heap :
         heap[h].strong = Pool[h].strong + Cardinality({e \in DOMAIN entries : entries[e].handler = h})
    /\ \A c \in DOMAIN calls :
         (calls[c].e # 0 /\ heap[calls[c].h].f = "counter") =>
            /\ Len(calls[c].invoked) = 1
            /\ calls[c].h = entries[Root(calls[c].e)].handler
            /\ calls[c].invoked[1].count = Cardinality(EarlierInFamily(c))
            /\ calls[c].fut.outcome = Ok(<<Cardinality(EarlierInFamily(c)), calls[c].m>>)
    /\ \A e \in DOMAIN entries :
         (entries[e].variant = "Method" /\ heap[entries[e].handler].f = "counter") =>
            heap[entries[e].handler].count =
                Cardinality({c \in DOMAIN calls : calls[c].e # 0 /\ Root(calls[c].e) = Root(e)})

C5_Witness ==
    /\ Len(entries) >= 3
    /\ origin[2] = 1 /\ origin[3] = 1
    /\ \E c1, c2 \in DOMAIN calls :
         /\ c1 < c2
         /\ calls[c1].e = 2 /\ calls[c2].e = 3
         /\ calls[c1].p = calls[c2].p /\ calls[c1].m = calls[c2].m
         /\ calls[c1].resolved = <<Ok(<<0, calls[c1].m>>)>>
         /\ calls[c2].resolved = <<Ok(<<1, calls[c2].m>>)>>

\* C8: an entry never changes once it exists: no clone, Debug rendering, call,
\* execute, poll or detached work changes the variant, the handler reference
\* or the alias target of any entry, and none of them touches the registry.
C8_EntriesAreImmutable ==
    [][ /\ \A e \in DOMAIN entries : e \in DOMAIN entries' /\ entries'[e] = entries[e]
        /\ registry' = registry ]_vars

C8_Witness ==
    /\ Len(entries) >= 2
    /\ origin[2] = 1 /\ entries[2] = entries[1]
    /\ rendered.entry = 1
    /\ \E c \in DOMAIN calls : calls[c].e = 2 /\ calls[c].fut.done

----------------------------------------------------------------------------
(* Properties of aliases in the registry *)

\* C6: with "echo" registered as a Method and "ping" as Alias("echo"),
\* invoking through "ping" is invoking through "echo": the handler registered
\* under "echo" is invoked once with the same Parameters and Metadata, and the
\* computation and every effect are the ones invoking "echo" produces.
C6_AliasInvokesItsTarget ==
    [][ ( /\ registry[Ping].asked = [variant |-> "Alias", handler |-> 0, target |-> Echo]
          /\ registry[Echo].asked.variant = "Method"
          /\ Len(calls') = Len(calls) + 1
          /\ calls'[Len(calls')].via = Ping )
        => LET c == calls'[Len(calls')]
               viaEcho == Invocation(Echo, c.p, c.m)
           IN /\ c.op = "call"
              /\ c.h = registry[Echo].asked.handler
              /\ viaEcho.op = c.op /\ viaEcho.h = c.h
              /\ c.invoked = <<[h |-> c.h, p |-> c.p, m |-> c.m, count |-> heap[c.h].count]>>
              /\ c.invoked = viaEcho.r.w.trace
              /\ c.fut = viaEcho.r.fut
              /\ heap' = viaEcho.r.w.heap
              /\ tasks' = viaEcho.r.w.tasks ]_vars

C6_Witness ==
    /\ registry[Ping].entry = Alias(Echo)
    /\ registry[Echo].entry.variant = "Method"
    /\ \E c \in DOMAIN calls :
         /\ calls[c].via = Ping /\ calls[c].op = "call"
         /\ calls[c].h = registry[Echo].entry.handler
         /\ calls[c].p = 1 /\ calls[c].resolved = <<Ok(<<1, calls[c].m>>)>>

\* A chain of aliases from name n that never reaches a Method or Notification.
NeverResolves(n) == Resolve(registry, n).found # "entry"

\* C9: constructing an Alias succeeds for every target name, unvalidated: the
\* entry stored is the Alias to exactly the name asked for, also when that name
\* is the alias's own, is itself an alias, or is not registered, so registries
\* whose alias chains never resolve are built without complaint.
C9_AliasIsNotValidated ==
    \A n \in Names :
        registry[n].asked.variant = "Alias" =>
            registry[n].entry =
                [variant |-> "Alias", handler |-> 0, target |-> registry[n].asked.target]

C9_Witness ==
    /\ registry[Ping].entry = Alias(Ping)
    /\ registry[Echo].entry = Alias(Odd)
    /\ NeverResolves(Ping) /\ NeverResolves(Echo)
    /\ \E c \in DOMAIN calls : calls[c].via = Ping /\ calls[c].op = "cycle"

====
